---- MODULE Spec2Model ----
(***************************************************************************)
(* robo-progress: src/main.py.                                             *)
(*                                                                         *)
(* main() validates the source directories, creates one progress slot per  *)
(* valid directory, submits one copy_folder call per directory to a        *)
(* ThreadPoolExecutor of args.parallel workers and collects the futures in *)
(* submission order.  copy_folder estimates the size (get_stats), launches *)
(* robocopy, parses its output line by line and finalizes the slot.        *)
(*                                                                         *)
(* Spec       : one run of main() with its worker threads.                 *)
(* SpecParser : the read loop of copy_folder driven by arbitrary lines.    *)
(***************************************************************************)
EXTENDS Integers, Sequences, FiniteSets, TLC

(***************************************************************************)
(* Bounds of the model.                                                    *)
(***************************************************************************)
MaxDirs == 2        \* source_directories given on the command line
MaxParallel == 2    \* largest --parallel value explored
MaxLines == 2       \* lines a copy process prints before end-of-stream
MaxFeed == 4        \* lines read by the loop under SpecParser, SpecLines
MaxResults == 3     \* results in the list summed up under SpecSummary
MaxListing == 3     \* lines of the listing get_stats reads under SpecStats
MaxClock == 3       \* ticks of the clock under SpecPaths

(***************************************************************************)
(* Characters and lines.  A line is a sequence of one-character strings.   *)
(***************************************************************************)
\* F applied to the value of e, e being evaluated once
With(e, F(_)) == CHOOSE y \in {F(x) : x \in {e}} : TRUE

Digits == <<"0", "1", "2", "3", "4", "5", "6", "7", "8", "9">>

IsDigit(c) == \E k \in 1..10 : Digits[k] = c

DigitVal(c) == (CHOOSE k \in 1..10 : Digits[k] = c) - 1

IsSpace(c) == c \in {" ", "\t", "\n", "\r"}

\* number of leading characters of s, from position k on, that satisfy P
RECURSIVE Run(_, _, _)
Run(P(_), s, k) ==
    IF k <= Len(s) /\ P(s[k]) THEN 1 + Run(P, s, k + 1) ELSE 0

RECURSIVE RunBack(_, _, _)
RunBack(P(_), s, k) ==
    IF k >= 1 /\ P(s[k]) THEN 1 + RunBack(P, s, k - 1) ELSE 0

\* str.strip(): leading and trailing whitespace removed
Strip(s) ==
    LET a == Run(IsSpace, s, 1)
        b == RunBack(IsSpace, s, Len(s))
    IN  IF a >= Len(s) THEN <<>> ELSE SubSeq(s, a + 1, Len(s) - b)

\* int() of a run of decimal digits
RECURSIVE ParseInt(_)
ParseInt(s) ==
    IF s = <<>> THEN 0
    ELSE 10 * ParseInt(SubSeq(s, 1, Len(s) - 1)) + DigitVal(s[Len(s)])

(***************************************************************************)
(* The two regular expressions of src/main.py, lines 40-43, matched the    *)
(* way re.match does on a sequence of characters.                          *)
(***************************************************************************)
NoMatch == [matched |-> FALSE, value |-> 0]

\* a header pattern that asks for the size only: ^\s*(?P<size>\d+)
FILE_LINE_RE_SizeOnly(s) ==
    LET a == Run(IsSpace, s, 1)
        d == Run(IsDigit, s, a + 1)
    IN  IF d >= 1
        THEN [matched |-> TRUE, value |-> ParseInt(SubSeq(s, a + 1, a + d))]
        ELSE NoMatch

\* FILE_LINE_RE = ^\s*(?P<size>\d+)\s+(?P<path>.+)$ ; value is int(size)
FILE_LINE_RE(s) ==
    LET a == Run(IsSpace, s, 1)
        d == Run(IsDigit, s, a + 1)
        w == Run(IsSpace, s, a + d + 1)
        n == Len(s)
        ends == {n} \cup (IF n >= 1 /\ s[n] = "\n" THEN {n - 1} ELSE {})
    IN  IF /\ d >= 1
           /\ w >= 1
           /\ \E j \in (a + d + 2)..(a + d + w + 1) : \E e \in ends :
                 /\ j <= e
                 /\ \A k \in j..e : s[k] # "\n"
        THEN [matched |-> TRUE, value |-> ParseInt(SubSeq(s, a + 1, a + d))]
        ELSE NoMatch

\* after the number, PERCENTAGE_RE wants \s*%$ : from position k on
PercentTail(s, k) ==
    LET w == Run(IsSpace, s, k)
        p == k + w
        n == Len(s)
    IN  /\ p <= n
        /\ s[p] = "%"
        /\ \/ p = n
           \/ p = n - 1 /\ s[n] = "\n"

\* PERCENTAGE_RE = ^\s*(?P<percentage>\d{1,2}(?:\.\d)?|100)\s*%$ ;
\* value is the matched number in tenths (the text "7.5" is 75)
PERCENTAGE_RE(s) ==
    LET a == Run(IsSpace, s, 1)
        d == Run(IsDigit, s, a + 1)
        n == Len(s)
        int2 == IF d >= 2 THEN 2 ELSE d       \* \d{1,2}, greedy
        hasFrac(i) == /\ a + i + 2 <= n
                      /\ s[a + i + 1] = "."
                      /\ IsDigit(s[a + i + 2])
        whole(i) == ParseInt(SubSeq(s, a + 1, a + i))
        frac(i) == DigitVal(s[a + i + 2])
        \* the lengths \d{1,2} may take, longest first, with and
        \* without (?:\.\d)
        cands == {i \in 1..int2 : hasFrac(i) /\ PercentTail(s, a + i + 3)}
        plain == {i \in 1..int2 : PercentTail(s, a + i + 1)}
    IN  IF cands # {}
        THEN LET i == CHOOSE i \in cands : \A k \in cands : k <= i
             IN  [matched |-> TRUE, value |-> 10 * whole(i) + frac(i)]
        ELSE IF plain # {}
        THEN LET i == CHOOSE i \in plain : \A k \in plain : k <= i
             IN  [matched |-> TRUE, value |-> 10 * whole(i)]
        ELSE IF /\ d >= 3
                /\ SubSeq(s, a + 1, a + 3) = <<"1", "0", "0">>
                /\ PercentTail(s, a + 4)
        THEN [matched |-> TRUE, value |-> 1000]
        ELSE NoMatch

(***************************************************************************)
(* Python floats are IEEE-754 doubles.  A natural number too wide for one  *)
(* machine word is a sequence of limbs in base Base, most significant      *)
(* first, <<>> being zero.  A positive double is a record [m, e]: m its    *)
(* Prec-bit significand as such a number, and the value is m * 2^e.  Zero  *)
(* is [m |-> <<>>, e |-> 0].  Every operation rounds to nearest, ties to   *)
(* even, as the hardware does.                                             *)
(***************************************************************************)
Prec == 53

LimbBits == 10

Base == 1024

FZero == [m |-> <<>>, e |-> 0]

Zeros(k) == [i \in 1..k |-> 0]

RECURSIVE Pow2(_)
Pow2(k) == IF k = 0 THEN 1 ELSE 2 * Pow2(k - 1)

\* number of bits of the machine integer n
RECURSIVE IntBitLen(_)
IntBitLen(n) == IF n = 0 THEN 0 ELSE 1 + IntBitLen(n \div 2)

RECURSIVE IntToLimbs(_)
IntToLimbs(n) ==
    IF n = 0 THEN <<>> ELSE Append(IntToLimbs(n \div Base), n % Base)

RECURSIVE LimbsToInt(_)
LimbsToInt(x) ==
    IF x = <<>> THEN 0
    ELSE Base * LimbsToInt(SubSeq(x, 1, Len(x) - 1)) + x[Len(x)]

Normalize(x) == SubSeq(x, Run(LAMBDA v : v = 0, x, 1) + 1, Len(x))

BigBitLen(x) ==
    IF x = <<>> THEN 0 ELSE LimbBits * (Len(x) - 1) + IntBitLen(x[1])

BigIsOdd(x) == x # <<>> /\ x[Len(x)] % 2 = 1

\* x * s for a machine integer s, limbs 1..k of x, carry carried in
RECURSIVE BigMulFrom(_, _, _, _)
BigMulFrom(x, s, k, carry) ==
    IF k = 0 THEN IntToLimbs(carry)
    ELSE With(s * x[k] + carry, LAMBDA v :
            Append(BigMulFrom(x, s, k - 1, v \div Base), v % Base))

BigMulSmall(x, s) == Normalize(BigMulFrom(x, s, Len(x), 0))

\* long division of x by a machine integer d, from limb k on
RECURSIVE BigDivFrom(_, _, _, _)
BigDivFrom(x, d, k, rem) ==
    IF k > Len(x) THEN [q |-> <<>>, rem |-> rem]
    ELSE With(Base * rem + x[k], LAMBDA v :
            With(BigDivFrom(x, d, k + 1, v % d), LAMBDA r :
               [q |-> <<v \div d>> \o r.q, rem |-> r.rem]))

BigDivSmall(x, d) ==
    With(BigDivFrom(x, d, 1, 0), LAMBDA r :
       [q |-> Normalize(r.q), rem |-> r.rem])

BigShiftLeft(x, s) ==
    IF x = <<>> THEN <<>>
    ELSE BigMulSmall(x, Pow2(s % LimbBits)) \o Zeros(s \div LimbBits)

\* floor(x / 2^s), and whether anything nonzero was shifted out
BigShiftRight(x, s) ==
    LET a == s \div LimbBits
    IN  IF a >= Len(x)
        THEN [q |-> <<>>, sticky |-> x # <<>>]
        ELSE With(BigDivSmall(SubSeq(x, 1, Len(x) - a), Pow2(s % LimbBits)),
                  LAMBDA r :
                     [q |-> r.q,
                      sticky |-> \/ r.rem # 0
                                 \/ \E k \in (Len(x) - a + 1)..Len(x) :
                                       x[k] # 0])

\* x + 1
RECURSIVE BigInc(_)
BigInc(x) ==
    IF x = <<>> THEN <<1>>
    ELSE IF x[Len(x)] < Base - 1
    THEN SubSeq(x, 1, Len(x) - 1) \o <<x[Len(x)] + 1>>
    ELSE BigInc(SubSeq(x, 1, Len(x) - 1)) \o <<0>>

\* x * 2^e (x > 0; sticky: a nonzero remainder lies below x's last bit)
\* rounded to Prec bits
RoundToDouble(x, e, sticky) ==
    LET L == BigBitLen(x)
    IN  IF L <= Prec
        THEN [m |-> BigShiftLeft(x, Prec - L), e |-> e - (Prec - L)]
        ELSE \* h: Prec bits and the guard bit; keep: the Prec bits
             With(BigShiftRight(x, L - Prec - 1), LAMBDA h :
             With(BigShiftRight(h.q, 1).q, LAMBDA keep :
             With(IF BigIsOdd(h.q) /\ (sticky \/ h.sticky \/ BigIsOdd(keep))
                  THEN BigInc(keep) ELSE keep, LAMBDA m1 :
                IF BigBitLen(m1) > Prec
                THEN [m |-> BigShiftRight(m1, 1).q, e |-> e + (L - Prec) + 1]
                ELSE [m |-> m1, e |-> e + (L - Prec)])))

\* least k with n * 2^k >= d
RECURSIVE Log2Up(_, _)
Log2Up(n, d) == IF n < d THEN 1 + Log2Up(2 * n, d) ELSE 0

\* the double nearest to n / d (n >= 0, d > 0): float() of a decimal text
FloatOfRatio(n, d) ==
    IF n = 0 THEN FZero
    ELSE With(Prec + 2 + Log2Up(n, d), LAMBDA k :
            With(BigDivSmall(BigShiftLeft(IntToLimbs(n), k), d), LAMBDA r :
               RoundToDouble(r.q, 0 - k, r.rem # 0)))

\* x / d for a double x and a machine integer d > 0 (d is exactly a double)
FloatDiv(x, d) ==
    IF x.m = <<>> THEN FZero
    ELSE With(Log2Up(1, d) + 2, LAMBDA z :
            With(BigDivSmall(BigShiftLeft(x.m, z), d), LAMBDA r :
               RoundToDouble(r.q, x.e - z, r.rem # 0)))

\* s * x for a machine integer s >= 0 (s is exactly a double) and a double x
FloatMul(s, x) ==
    IF s = 0 \/ x.m = <<>> THEN FZero
    ELSE With(BigMulSmall(x.m, s), LAMBDA p :
            RoundToDouble(p, x.e, FALSE))

\* int(x): truncation toward zero of a double x >= 0
FloatToInt(x) ==
    IF x.m = <<>> THEN 0
    ELSE IF x.e >= 0 THEN LimbsToInt(BigShiftLeft(x.m, x.e))
    ELSE LimbsToInt(BigShiftRight(x.m, 0 - x.e).q)

\* src/main.py:236-237: percentage = float(text), given in tenths;
\* new_done = int(current_file_size * (percentage / 100.0))
NewDone(current_file_size, tenths) ==
    With(FloatOfRatio(tenths, 10), LAMBDA percentage :
    With(FloatDiv(percentage, 100), LAMBDA fraction :
    With(FloatMul(current_file_size, fraction), LAMBDA product :
       FloatToInt(product))))

(***************************************************************************)
(* The body of the read loop of copy_folder, src/main.py:226-241, for one  *)
(* line read: the new current_file_size and current_file_done, and the     *)
(* delta passed to progress.advance (0: advance is not called).            *)
(***************************************************************************)
\* a loop whose header branch forgets current_file_done = 0
LoopBodyKeepsDone(current_file_size, current_file_done, raw) ==
    LET same == [current_file_size |-> current_file_size,
                 current_file_done |-> current_file_done,
                 delta |-> 0]
    IN  With(Strip(raw), LAMBDA line :
        With(FILE_LINE_RE(line), LAMBDA file :
        With(PERCENTAGE_RE(line), LAMBDA pct :
           IF line = <<>> THEN same
           ELSE IF file.matched
           THEN [current_file_size |-> file.value,
                 current_file_done |-> current_file_done,
                 delta |-> 0]
           ELSE IF pct.matched
           THEN With(NewDone(current_file_size, pct.value), LAMBDA new_done :
                   IF new_done - current_file_done > 0
                   THEN [current_file_size |-> current_file_size,
                         current_file_done |-> new_done,
                         delta |-> new_done - current_file_done]
                   ELSE same)
           ELSE same)))

\* a loop that advances by every delta other than zero
LoopBodyAnyDelta(current_file_size, current_file_done, raw) ==
    LET same == [current_file_size |-> current_file_size,
                 current_file_done |-> current_file_done,
                 delta |-> 0]
    IN  With(Strip(raw), LAMBDA line :
        With(FILE_LINE_RE(line), LAMBDA file :
        With(PERCENTAGE_RE(line), LAMBDA pct :
           IF line = <<>> THEN same
           ELSE IF file.matched
           THEN [current_file_size |-> file.value,
                 current_file_done |-> 0,
                 delta |-> 0]
           ELSE IF pct.matched
           THEN With(NewDone(current_file_size, pct.value), LAMBDA new_done :
                   IF new_done - current_file_done # 0
                   THEN [current_file_size |-> current_file_size,
                         current_file_done |-> new_done,
                         delta |-> new_done - current_file_done]
                   ELSE same)
           ELSE same)))

LoopBody(current_file_size, current_file_done, raw) ==
    LET same == [current_file_size |-> current_file_size,
                 current_file_done |-> current_file_done,
                 delta |-> 0]
    IN  With(Strip(raw), LAMBDA line :
        With(FILE_LINE_RE(line), LAMBDA file :
        With(PERCENTAGE_RE(line), LAMBDA pct :
           IF line = <<>> THEN same
           ELSE IF file.matched
           THEN [current_file_size |-> file.value,
                 current_file_done |-> 0,
                 delta |-> 0]
           ELSE IF pct.matched
           THEN With(NewDone(current_file_size, pct.value), LAMBDA new_done :
                   IF new_done - current_file_done > 0
                   THEN [current_file_size |-> current_file_size,
                         current_file_done |-> new_done,
                         delta |-> new_done - current_file_done]
                   ELSE same)
           ELSE same)))

\* the text of a line as readline returns it
Chars(n) == IF n < 10 THEN <<Digits[n + 1]>>
            ELSE IF n < 100
            THEN <<Digits[(n \div 10) + 1], Digits[(n % 10) + 1]>>
            ELSE IF n < 1000
            THEN <<Digits[(n \div 100) + 1], Digits[((n \div 10) % 10) + 1],
                   Digits[(n % 10) + 1]>>
            ELSE <<Digits[(n \div 1000) + 1], Digits[((n \div 100) % 10) + 1],
                   Digits[((n \div 10) % 10) + 1], Digits[(n % 10) + 1]>>

HeaderLine(size) == Chars(size) \o <<" ", "f", "\n">>

PercentLine(p) == Chars(p) \o <<"%", "\n">>

DecimalLine(p, tenth) == Chars(p) \o <<".">> \o Chars(tenth) \o <<"%", "\n">>

\* a file line as robocopy indents it
IndentedHeaderLine(size) == <<"\t", " ">> \o HeaderLine(size)

\* a percentage with a blank before the sign, which \s*% accepts
SpacedPercentLine(p) == Chars(p) \o <<" ", "%", "\n">>

BlankLine == <<"\n">>

WhitespaceLine == <<" ", "\t", "\r", "\n">>

\* text that is neither a size and a path nor a percentage
BannerLine == <<"-", "-", "\n">>

\* a number with nothing after it
NumberLine == <<"1", "2", "\n">>

(***************************************************************************)
(* State of one run of main().                                             *)
(***************************************************************************)
VARIABLES
    args,          \* parse_args(): source_directories, mirror, parallel
    fs,            \* what each source path is on disk: "dir", "file", "missing"
    mpc,           \* where the main thread is
    confirm,       \* the mirror prompt: "?" (not asked), "accepted", "declined"
    source_paths,  \* the validated paths, main.py:290-298
    executor,      \* "none", "open" or "shutdown"
    slots,         \* progress tasks, in creation order; task_id = index - 1
    pairs,         \* the (source_path, task_id) list of main.py:318-321
    futures,       \* one per submit(), in submission order
    work_queue,    \* submitted work items no worker has taken yet
    worker,        \* what each pool thread runs (0: nothing)
    frame,         \* the locals of each copy_folder call
    proc,          \* the robocopy copy process of each call
    propagating,   \* the exception unwinding main ("": none)
    results,       \* main.py:303,327
    summary,       \* the summary printed, main.py:330-341
    exit_code,     \* the exit status of the program (-1: still running)
    overtaken,     \* history: a call finished before one submitted earlier
    fed,           \* SpecParser: the lines read so far
    parser,        \* SpecParser: current_file_size, current_file_done
    emitted,       \* SpecParser: per line read, the delta advanced (0: none)
    listing,       \* SpecStats: result.stdout of the listing run of get_stats
    stats,         \* SpecStats: what get_stats returned or raised
    names,         \* the path of each source directory below the source PC
    clock,         \* datetime.now(), in ticks of a fraction of a second
    cmd            \* per call, the paths in the command line of its robocopy

bvars == <<args, fs, mpc, confirm, source_paths, executor, slots, pairs,
           futures, work_queue, worker, frame, proc, propagating, results,
           summary, exit_code, overtaken>>

pvars == <<fed, parser, emitted>>

svars == <<listing, stats>>

\* what only Launch and Tick change
ovars == <<pvars, svars, names, clock>>

vars == <<bvars, ovars, cmd>>

Kinds == {"dir", "file", "missing"}

\* input().lower() at the mirror prompt
Answers == {"y", "yes", "n", ""}

\* size_bytes that get_stats may report
Totals == {4}

\* robocopy's exit status is a bit mask: 0 is a clean run, 16 a fatal error
ExitCodes == {0, 16}

\* what a stopped slot's clock may read, in seconds
ElapsedTimes == {1, 2}

\* what the copy process may print in a run of main()
BatchLines == {HeaderLine(4), PercentLine(50)}

\* LoopBody on every parser state and line a run of main() can meet,
\* evaluated once
BatchStep ==
    [x \in {0, 4} \X (0..4) \X BatchLines |-> LoopBody(x[1], x[2], x[3])]
        @@ <<>>

NoResult == [bytes_copied |-> -1, time_seconds |-> -1]

NoSummary == [total_bytes |-> -1, total_time |-> -1, average_speed |-> FZero]

\* estimates counts the calls of get_stats this call has made
NoFrame == [pc |-> "none", total_bytes |-> 0, current_file_size |-> 0,
            current_file_done |-> 0, nread |-> 0, returncode |-> -1,
            estimates |-> 0]

\* get_stats has not been called
NoStats == [raised |-> "not called", size_bytes |-> -1, file_count |-> -1]

\* main.py:201-216 has not been reached
NoCmd == [destination_path |-> <<>>, log_file_path |-> <<>>]

\* the paths a source directory may have below the source PC: a share, or
\* a folder of a share
SourceDirs == {<<"C">>, <<"C", "data">>, <<"D", "data">>}

\* main.py:53-59: the share of a UNC path, the last part of its drive
get_unc_share_name(path) == path[1]

\* main.py:61-63: path.name, which is empty for the root of a share
smart_leaf_name(path) ==
    LET name == IF Len(path) > 1 THEN path[Len(path)] ELSE ""
    IN  IF name # "" THEN name ELSE get_unc_share_name(path)

\* main.py:183,201: destination_parent / source_path_name
DestinationPath(path) == <<"destination_parent", smart_leaf_name(path)>>

\* ticks of the clock in one second
TicksPerSecond == 2

\* main.py:204: datetime.now().strftime("%Y%m%d_%H%M%S") drops what is
\* below the second
Timestamp(now) == now \div TicksPerSecond

\* main.py:205: logs_dir / f"{source_path_name}_{timestamp}.log"
LogFilePath(path, now) ==
    <<"logs_dir", smart_leaf_name(path), Timestamp(now)>>

\* a validation that forgets is_dir()
IsValidSourceExistsOnly(kind) == kind # "missing"

\* main.py:293: kept when source_path.exists() and source_path.is_dir()
IsValidSource(kind) == kind = "dir"

\* main.py:290-298
ValidPaths(dirs, kinds) == SelectSeq(dirs, LAMBDA d : IsValidSource(kinds[d]))

\* a pool with one thread per call
MaxWorkersOnePerCall == Len(source_paths)

\* main.py:305: ThreadPoolExecutor(max_workers=args.parallel)
MaxWorkers == args.parallel

\* main.py:319: progress.add_task(label, total=None), started at once
\* resets counts the calls of progress.reset on the slot
NewSlot(path) == [description |-> "label", label |-> path, total |-> -1,
                  completed |-> 0, stopped |-> FALSE, elapsed |-> 0,
                  resets |-> 0]

\* main.py:199: the result of a call whose get_stats raised ValueError
SkippedResult == [bytes_copied |-> 0, time_seconds |-> 0]

\* a result that recounts the bytes advanced on the slot
CopyResultRecount(total_bytes, slot) ==
    [bytes_copied |-> slot.completed, time_seconds |-> slot.elapsed]

\* main.py:250-253
CopyResult(total_bytes, slot) ==
    [bytes_copied |-> total_bytes, time_seconds |-> slot.elapsed]

\* results kept newest first
CollectFront(rs, r) == <<r>> \o rs

\* main.py:327: results.append(result)
Collect(rs, r) == Append(rs, r)

TypeOK ==
    /\ mpc \in {"start", "validate", "enter", "build", "collect",
                "shutdown", "summary", "exited"}
    /\ executor \in {"none", "open", "shutdown"}
    /\ exit_code \in {-1, 0, 1}
    /\ Len(futures) <= Len(pairs)
    /\ Len(pairs) <= Len(source_paths)

Init ==
    /\ \E n \in 1..MaxDirs, m \in BOOLEAN, par \in 1..MaxParallel :
          args = [source_directories |-> [i \in 1..n |-> i],
                  mirror |-> m, parallel |-> par]
    /\ fs \in [1..Len(args.source_directories) -> Kinds]
    /\ mpc = "start"
    /\ confirm = "?"
    /\ source_paths = <<>>
    /\ executor = "none"
    /\ slots = <<>>
    /\ pairs = <<>>
    /\ futures = <<>>
    /\ work_queue = <<>>
    /\ worker = <<>>
    /\ frame = <<>>
    /\ proc = <<>>
    /\ propagating = ""
    /\ results = <<>>
    /\ summary = NoSummary
    /\ exit_code = -1
    /\ overtaken = FALSE
    /\ fed = <<>>
    /\ parser = [current_file_size |-> 0, current_file_done |-> 0]
    /\ emitted = <<>>
    /\ listing = <<>>
    /\ stats = NoStats
    /\ names = [i \in 1..Len(args.source_directories) |->
                   <<"C", Digits[i + 1]>>]
    /\ clock = 0
    /\ cmd = <<>>

(***************************************************************************)
(* The main thread, src/main.py:263-343.                                   *)
(***************************************************************************)
\* main.py:273
Accepts(answer) == answer \in {"y", "yes"}

\* main.py:266-275: the mirror prompt; anything but y / yes exits with 0
Confirm ==
    /\ mpc = "start"
    /\ IF args.mirror
       THEN \E a \in Answers :
               /\ confirm' = IF Accepts(a) THEN "accepted" ELSE "declined"
               /\ IF ~Accepts(a)
                  THEN mpc' = "exited" /\ exit_code' = 0
                  ELSE mpc' = "validate" /\ UNCHANGED exit_code
       ELSE mpc' = "validate" /\ UNCHANGED <<confirm, exit_code>>
    /\ UNCHANGED <<args, fs, source_paths, executor, slots, pairs, futures,
                   work_queue, worker, frame, proc, propagating, results,
                   summary, overtaken, ovars, cmd>>

\* main.py:289-301: build and validate the source paths; none left: exit 1
Validate ==
    /\ mpc = "validate"
    /\ source_paths' = ValidPaths(args.source_directories, fs)
    /\ IF source_paths' = <<>>
       THEN mpc' = "exited" /\ exit_code' = 1
       ELSE mpc' = "enter" /\ UNCHANGED exit_code
    /\ UNCHANGED <<args, fs, confirm, executor, slots, pairs, futures,
                   work_queue, worker, frame, proc, propagating, results,
                   summary, overtaken, ovars, cmd>>

\* main.py:303-305: results = [], with progress, with ThreadPoolExecutor(...)
EnterPool ==
    /\ mpc = "enter"
    /\ executor' = "open"
    /\ worker' = [w \in 1..MaxWorkers |-> 0]
    /\ mpc' = "build"
    /\ UNCHANGED <<args, fs, confirm, source_paths, slots, pairs, futures,
                   work_queue, frame, proc, propagating, results, summary,
                   exit_code, overtaken, ovars, cmd>>

\* a single comprehension that adds a slot and submits, path by path
InnerListLazy == Len(pairs) > Len(futures)

\* main.py:318-321: the inner list, with every add_task call, is built whole
\* before the outer comprehension makes its first submit
InnerListBuilt == Len(pairs) = Len(source_paths)

\* main.py:319: one progress.add_task per validated path
AddTask ==
    /\ mpc = "build"
    /\ Len(pairs) < Len(source_paths)
    /\ LET p == source_paths[Len(pairs) + 1]
           task_id == Len(slots)
       IN  /\ slots' = Append(slots, NewSlot(p))
           /\ pairs' = Append(pairs, <<p, task_id>>)
    /\ UNCHANGED <<args, fs, confirm, mpc, source_paths, executor, futures,
                   work_queue, worker, frame, proc, propagating, results,
                   summary, exit_code, overtaken, ovars, cmd>>

\* main.py:307-317: one executor.submit(copy_folder, ...) per pair
Submit ==
    /\ mpc = "build"
    /\ InnerListBuilt
    /\ Len(futures) < Len(pairs)
    /\ LET k == Len(futures) + 1
       IN  /\ futures' = Append(futures,
                  [state |-> "PENDING", result |-> NoResult, exception |-> "",
                   source_path |-> pairs[k][1], task_id |-> pairs[k][2]])
           /\ work_queue' = Append(work_queue, k)
           /\ frame' = Append(frame, NoFrame)
           /\ proc' = Append(proc, "none")
           /\ cmd' = Append(cmd, NoCmd)
           /\ mpc' = IF k = Len(source_paths) THEN "collect" ELSE "build"
    /\ UNCHANGED <<args, fs, confirm, source_paths, executor, slots, pairs,
                   worker, propagating, results, summary, exit_code,
                   overtaken, ovars>>

\* main.py:324-327: future.result() blocks until that future is finished and
\* re-raises what the call raised
CollectNext ==
    /\ mpc = "collect"
    /\ LET k == Len(results) + 1
           f == futures[k]
       IN  /\ f.state = "FINISHED"
           /\ IF f.exception = ""
              THEN /\ results' = Collect(results, f.result)
                   /\ mpc' = IF k = Len(futures) THEN "shutdown" ELSE "collect"
                   /\ UNCHANGED propagating
              ELSE /\ propagating' = f.exception
                   /\ mpc' = "shutdown"
                   /\ UNCHANGED results
    /\ UNCHANGED <<args, fs, confirm, source_paths, executor, slots, pairs,
                   futures, work_queue, worker, frame, proc, summary,
                   exit_code, overtaken, ovars, cmd>>

\* leaving the two with blocks, main.py:304-305: executor.shutdown(wait=True)
\* joins the workers, which first drain the queue; an exception that is
\* unwinding main then ends the program with a traceback and status 1
Shutdown ==
    /\ mpc = "shutdown"
    /\ work_queue = <<>>
    /\ \A w \in DOMAIN worker : worker[w] = 0
    /\ executor' = "shutdown"
    /\ IF propagating = ""
       THEN mpc' = "summary" /\ UNCHANGED exit_code
       ELSE mpc' = "exited" /\ exit_code' = 1
    /\ UNCHANGED <<args, fs, confirm, source_paths, slots, pairs, futures,
                   work_queue, worker, frame, proc, propagating, results,
                   summary, overtaken, ovars, cmd>>

RECURSIVE SumBytes(_)
SumBytes(rs) ==
    IF rs = <<>> THEN 0 ELSE rs[1].bytes_copied + SumBytes(Tail(rs))

\* a total time that adds the times up
RECURSIVE SumTime(_)
SumTime(rs) ==
    IF rs = <<>> THEN 0 ELSE rs[1].time_seconds + SumTime(Tail(rs))

RECURSIVE MaxTime(_)
MaxTime(rs) ==
    IF rs = <<>> THEN 0
    ELSE LET m == MaxTime(Tail(rs))
         IN  IF rs[1].time_seconds > m THEN rs[1].time_seconds ELSE m

\* main.py:334-336: total_bytes / 1_048_576 / total_time if total_time > 0
\* else 0, in doubles
AverageSpeed(total_bytes, total_time) ==
    IF total_time > 0
    THEN FloatDiv(FloatOfRatio(total_bytes, 1048576), total_time)
    ELSE FZero

\* main.py:329-336
SummaryOf(rs) ==
    With(SumBytes(rs), LAMBDA total_bytes :
    With(MaxTime(rs), LAMBDA total_time :
       [total_bytes |-> total_bytes,
        total_time |-> total_time,
        average_speed |-> AverageSpeed(total_bytes, total_time)]))

\* main.py:329-343: the summary is printed and main returns
Summary ==
    /\ mpc = "summary"
    /\ summary' = SummaryOf(results)
    /\ mpc' = "exited"
    /\ exit_code' = 0
    /\ UNCHANGED <<args, fs, confirm, source_paths, executor, slots, pairs,
                   futures, work_queue, worker, frame, proc, propagating,
                   results, overtaken, ovars, cmd>>

(***************************************************************************)
(* The pool threads.  Worker w runs call k = worker[w]: copy_folder,       *)
(* src/main.py:171-253, with the arguments of the k-th submit.             *)
(***************************************************************************)
\* progress.tasks[task_id]
Slot(task_id) == slots[task_id + 1]

\* a display whose updates all land on its first slot
SetSlotFirst(task_id, slot) == [slots EXCEPT ![1] = slot]

\* progress.update / reset / stop_task(task_id, ...): the slot of that id
SetSlot(task_id, slot) == [slots EXCEPT ![task_id + 1] = slot]

\* the call returned or raised: the future is finished and the thread is
\* free; a call that ends in its first step has called get_stats there
Finished(k, w, result, exception) ==
    /\ futures' = [futures EXCEPT ![k].state = "FINISHED",
                                  ![k].result = result,
                                  ![k].exception = exception]
    /\ frame' = [frame EXCEPT ![k] =
                    [NoFrame EXCEPT !.pc = IF exception = "" THEN "returned"
                                           ELSE "raised",
                                    !.returncode = frame[k].returncode,
                                    !.estimates = frame[k].estimates
                                       + IF frame[k].pc = "estimate" THEN 1
                                         ELSE 0]]
    /\ worker' = [worker EXCEPT ![w] = 0]
    /\ overtaken' = (overtaken \/ \E j \in 1..(k - 1) :
                                     futures[j].state # "FINISHED")

\* a copy_folder that goes straight to the copy
EntryPointLaunch == "launch"

\* main.py:183-186: the first thing copy_folder does is get_stats
EntryPoint == "estimate"

\* a free thread takes the oldest work item and enters copy_folder; the
\* threads of the pool are alike, so it is the free thread of lowest number
TakeWork(w) ==
    /\ worker[w] = 0
    /\ \A v \in 1..(w - 1) : worker[v] # 0
    /\ work_queue # <<>>
    /\ LET k == Head(work_queue)
       IN  /\ worker' = [worker EXCEPT ![w] = k]
           /\ futures' = [futures EXCEPT ![k].state = "RUNNING"]
           /\ frame' = [frame EXCEPT ![k].pc = EntryPoint]
    /\ work_queue' = Tail(work_queue)
    /\ UNCHANGED <<args, fs, mpc, confirm, source_paths, executor, slots,
                   pairs, proc, propagating, results, summary, exit_code,
                   overtaken, ovars, cmd>>

\* main.py:185-199: get_stats, then the slot's total and clock; a ValueError
\* marks the slot and returns zeros; subprocess.run failing to start the
\* listing raises OSError, which nothing here catches
Estimate(w) ==
    /\ worker[w] # 0
    /\ LET k == worker[w]
           id == futures[k].task_id
       IN  /\ frame[k].pc = "estimate"
           /\ \/ \E total \in Totals :
                    /\ frame' = [frame EXCEPT
                                    ![k].total_bytes = total,
                                    ![k].estimates = frame[k].estimates + 1,
                                    ![k].pc = "launch"]
                    /\ slots' = SetSlot(id, [Slot(id) EXCEPT
                                                !.total = total,
                                                !.completed = 0,
                                                !.resets = Slot(id).resets + 1])
                    /\ UNCHANGED <<futures, worker, overtaken>>
              \/ /\ slots' = SetSlot(id, [Slot(id) EXCEPT
                                             !.description = "error",
                                             !.completed = 1])
                 /\ Finished(k, w, SkippedResult, "")
              \/ /\ Finished(k, w, NoResult, "OSError: get_stats")
                 /\ UNCHANGED slots
    /\ UNCHANGED <<args, fs, mpc, confirm, source_paths, executor, pairs,
                   work_queue, proc, propagating, results, summary,
                   exit_code, ovars, cmd>>

\* main.py:201-220: the directories are made and robocopy is started; mkdir
\* or Popen failing raises OSError
Launch(w) ==
    /\ worker[w] # 0
    /\ LET k == worker[w]
       IN  /\ frame[k].pc = "launch"
           /\ \/ /\ proc' = [proc EXCEPT ![k] = "running"]
                 /\ cmd' = [cmd EXCEPT ![k] =
                       [destination_path |->
                           DestinationPath(names[futures[k].source_path]),
                        log_file_path |->
                           LogFilePath(names[futures[k].source_path],
                                       clock)]]
                 /\ frame' = [frame EXCEPT ![k].pc = "read"]
                 /\ UNCHANGED <<futures, worker, overtaken>>
              \/ /\ Finished(k, w, NoResult, "OSError: Popen")
                 /\ UNCHANGED <<proc, cmd>>
    /\ UNCHANGED <<args, fs, mpc, confirm, source_paths, executor, slots,
                   pairs, work_queue, propagating, results, summary,
                   exit_code, ovars>>

\* main.py:225-241: one readline: a line, the end of the stream, or an error
\* of the read itself (OSError, UnicodeDecodeError), which nothing catches
ReadLine(w) ==
    /\ worker[w] # 0
    /\ LET k == worker[w]
           id == futures[k].task_id
           f == frame[k]
       IN  /\ f.pc = "read"
           /\ \/ \E raw \in BatchLines :
                    LET r == BatchStep[<<f.current_file_size,
                                         f.current_file_done, raw>>]
                    IN  /\ f.nread < MaxLines
                        /\ frame' = [frame EXCEPT
                              ![k].current_file_size = r.current_file_size,
                              ![k].current_file_done = r.current_file_done,
                              ![k].nread = f.nread + 1]
                        /\ slots' = SetSlot(id, [Slot(id) EXCEPT
                              !.completed = Slot(id).completed + r.delta])
                        /\ UNCHANGED <<futures, worker, overtaken>>
              \/ /\ frame' = [frame EXCEPT ![k].pc = "wait", ![k].nread = 0]
                 /\ UNCHANGED <<slots, futures, worker, overtaken>>
              \/ /\ Finished(k, w, NoResult, "ReadError")
                 /\ UNCHANGED slots
    /\ UNCHANGED <<args, fs, mpc, confirm, source_paths, executor, pairs,
                   work_queue, proc, propagating, results, summary,
                   exit_code, ovars, cmd>>

\* main.py:243: process.wait(); the exit status is not looked at
Wait(w) ==
    /\ worker[w] # 0
    /\ LET k == worker[w]
       IN  /\ frame[k].pc = "wait"
           /\ \E rc \in ExitCodes :
                 frame' = [frame EXCEPT ![k].returncode = rc,
                                        ![k].pc = "finalize"]
           /\ proc' = [proc EXCEPT ![k] = "exited"]
    /\ UNCHANGED <<args, fs, mpc, confirm, source_paths, executor, slots,
                   pairs, futures, work_queue, worker, propagating, results,
                   summary, exit_code, overtaken, ovars, cmd>>

\* main.py:247-253: stop_task, the green description, the result
Finalize(w) ==
    /\ worker[w] # 0
    /\ LET k == worker[w]
           id == futures[k].task_id
       IN  /\ frame[k].pc = "finalize"
           /\ \E t \in ElapsedTimes :
                 /\ slots' = SetSlot(id, [Slot(id) EXCEPT
                                            !.stopped = TRUE,
                                            !.elapsed = t,
                                            !.description = "green"])
                 /\ Finished(k, w, CopyResult(frame[k].total_bytes,
                                              slots'[id + 1]), "")
    /\ UNCHANGED <<args, fs, mpc, confirm, source_paths, executor, pairs,
                   work_queue, proc, propagating, results, summary,
                   exit_code, ovars, cmd>>

Next ==
    \/ Confirm
    \/ Validate
    \/ EnterPool
    \/ AddTask
    \/ Submit
    \/ CollectNext
    \/ Shutdown
    \/ Summary
    \/ \E w \in DOMAIN worker :
          \/ TakeWork(w)
          \/ Estimate(w)
          \/ Launch(w)
          \/ ReadLine(w)
          \/ Wait(w)
          \/ Finalize(w)

Spec == Init /\ [][Next]_vars

(***************************************************************************)
(* SpecParser: the read loop of one copy_folder call, src/main.py:222-241, *)
(* on any sequence of at most MaxFeed lines.  The variables of main() are  *)
(* those of a run with one directory and stay put.                         *)
(***************************************************************************)
ParserLines ==
    {HeaderLine(1000), HeaderLine(100), PercentLine(0), PercentLine(29),
     PercentLine(50), PercentLine(100), DecimalLine(99, 9),
     DecimalLine(100, 0)}

InitParser ==
    /\ args = [source_directories |-> <<1>>, mirror |-> FALSE, parallel |-> 1]
    /\ fs = <<"dir">>
    /\ mpc = "collect"
    /\ confirm = "?"
    /\ source_paths = <<1>>
    /\ executor = "open"
    /\ slots = <<[NewSlot(1) EXCEPT !.total = 0, !.resets = 1]>>
    /\ pairs = <<<<1, 0>>>>
    /\ futures = <<[state |-> "RUNNING", result |-> NoResult,
                    exception |-> "", source_path |-> 1, task_id |-> 0]>>
    /\ work_queue = <<>>
    /\ worker = <<1>>
    /\ frame = <<[NoFrame EXCEPT !.pc = "read", !.estimates = 1]>>
    /\ proc = <<"running">>
    /\ propagating = ""
    /\ results = <<>>
    /\ summary = NoSummary
    /\ exit_code = -1
    /\ overtaken = FALSE
    /\ fed = <<>>
    \* main.py:222-223
    /\ parser = [current_file_size |-> 0, current_file_done |-> 0]
    /\ emitted = <<>>
    /\ listing = <<>>
    /\ stats = NoStats
    /\ names = <<<<"C", "1">>>>
    /\ clock = 0
    /\ cmd = <<[destination_path |-> DestinationPath(<<"C", "1">>),
                log_file_path |-> LogFilePath(<<"C", "1">>, 0)]>>

\* main.py:225-241: one turn of the loop on the line raw
Feed(raw) ==
    /\ Len(fed) < MaxFeed
    /\ LET r == LoopBody(parser.current_file_size, parser.current_file_done,
                         raw)
       IN  /\ parser' = [current_file_size |-> r.current_file_size,
                         current_file_done |-> r.current_file_done]
           /\ emitted' = Append(emitted, r.delta)
    /\ fed' = Append(fed, raw)
    /\ UNCHANGED <<bvars, svars, names, clock, cmd>>

NextParser == \E raw \in ParserLines : Feed(raw)

SpecParser == InitParser /\ [][NextParser]_vars

(***************************************************************************)
(* SpecLines: the same loop on the kinds of line robocopy prints: file     *)
(* lines, plain and indented, percentages, with and without a blank before *)
(* the sign, and lines that are neither.                                   *)
(***************************************************************************)
StreamLines ==
    {HeaderLine(500), IndentedHeaderLine(200), PercentLine(100),
     PercentLine(50), SpacedPercentLine(50), BlankLine, WhitespaceLine,
     BannerLine, NumberLine}

NextLines == \E raw \in StreamLines : Feed(raw)

SpecLines == InitParser /\ [][NextLines]_vars

(***************************************************************************)
(* SpecSummary: the summary of src/main.py:329-336 on any list of at most  *)
(* MaxResults results.  The run is one whose calls have all returned and   *)
(* whose pool has been left.                                               *)
(***************************************************************************)
\* results of skipped calls and of copies of 0 bytes, 1 MiB and 30 MiB
SummaryResults ==
    {SkippedResult}
       \cup {[bytes_copied |-> b, time_seconds |-> t] :
                b \in {0, 1048576, 31457280}, t \in {7, 10, 12}}

InitSummary ==
    \E n \in 1..MaxResults : \E rs \in [1..n -> SummaryResults] :
       LET skipped(i) == rs[i] = SkippedResult
           path(i) == <<"C", Digits[i + 1]>>
       IN  /\ args = [source_directories |-> [i \in 1..n |-> i],
                      mirror |-> FALSE, parallel |-> 1]
           /\ fs = [i \in 1..n |-> "dir"]
           /\ mpc = "summary"
           /\ confirm = "?"
           /\ source_paths = [i \in 1..n |-> i]
           /\ executor = "shutdown"
           /\ slots = [i \in 1..n |->
                         IF skipped(i)
                         THEN [NewSlot(i) EXCEPT !.description = "error",
                                                 !.completed = 1]
                         ELSE [NewSlot(i) EXCEPT
                                  !.description = "green",
                                  !.total = rs[i].bytes_copied,
                                  !.resets = 1,
                                  !.stopped = TRUE,
                                  !.elapsed = rs[i].time_seconds]]
           /\ pairs = [i \in 1..n |-> <<i, i - 1>>]
           /\ futures = [i \in 1..n |->
                           [state |-> "FINISHED", result |-> rs[i],
                            exception |-> "", source_path |-> i,
                            task_id |-> i - 1]]
           /\ work_queue = <<>>
           /\ worker = <<0>>
           /\ frame = [i \in 1..n |->
                         [NoFrame EXCEPT
                             !.pc = "returned",
                             !.estimates = 1,
                             !.returncode = IF skipped(i) THEN -1 ELSE 0]]
           /\ proc = [i \in 1..n |-> IF skipped(i) THEN "none" ELSE "exited"]
           /\ propagating = ""
           /\ results = rs
           /\ summary = NoSummary
           /\ exit_code = -1
           /\ overtaken = FALSE
           /\ fed = <<>>
           /\ parser = [current_file_size |-> 0, current_file_done |-> 0]
           /\ emitted = <<>>
           /\ listing = <<>>
           /\ stats = NoStats
           /\ names = [i \in 1..n |-> path(i)]
           /\ clock = 0
           /\ cmd = [i \in 1..n |->
                       IF skipped(i) THEN NoCmd
                       ELSE [destination_path |-> DestinationPath(path(i)),
                             log_file_path |->
                                LogFilePath(path(i), 0)]]

NextSummary == Summary

SpecSummary == InitSummary /\ [][NextSummary]_vars

(***************************************************************************)
(* get_stats, src/main.py:105-124, on the text the listing run printed.    *)
(***************************************************************************)
Uppers == <<"A", "B", "C", "D", "E", "F", "G", "H", "I", "J", "K", "L", "M",
            "N", "O", "P", "Q", "R", "S", "T", "U", "V", "W", "X", "Y", "Z">>

Lowers == <<"a", "b", "c", "d", "e", "f", "g", "h", "i", "j", "k", "l", "m",
            "n", "o", "p", "q", "r", "s", "t", "u", "v", "w", "x", "y", "z">>

\* re.IGNORECASE compares letters without their case
Lower(c) ==
    IF \E k \in 1..26 : Uppers[k] = c
    THEN Lowers[CHOOSE k \in 1..26 : Uppers[k] = c]
    ELSE c

\* (?:Bytes|Octets) and (?:Files|Fichiers), in the order of the alternatives
SizeLabels == << <<"b", "y", "t", "e", "s">>,
                 <<"o", "c", "t", "e", "t", "s">> >>

FileLabels == << <<"f", "i", "l", "e", "s">>,
                 <<"f", "i", "c", "h", "i", "e", "r", "s">> >>

\* the class [\d,.]
IsNumberChar(c) == IsDigit(c) \/ c \in {",", "."}

\* s has the word at position i, whatever the case
HasWordAt(s, i, word) ==
    /\ i + Len(word) - 1 <= Len(s)
    /\ \A j \in 1..Len(word) : Lower(s[i + j - 1]) = word[j]

\* label \s*:\s*([\d,.]+) tried at position i of s: the group and where the
\* match ends
MatchLabelAt(label, s, i) ==
    LET p == i + Len(label)
        w1 == Run(IsSpace, s, p)
        c == p + w1
        w2 == Run(IsSpace, s, c + 1)
        g == c + 1 + w2
        d == Run(IsNumberChar, s, g)
    IN  IF /\ HasWordAt(s, i, label)
           /\ c <= Len(s)
           /\ s[c] = ":"
           /\ d >= 1
        THEN [matched |-> TRUE, group |-> SubSeq(s, g, g + d - 1),
              end |-> g + d - 1]
        ELSE [matched |-> FALSE, group |-> <<>>, end |-> i]

\* the alternatives of the pattern tried in order at position i
MatchAt(labels, s, i) ==
    LET first == MatchLabelAt(labels[1], s, i)
    IN  IF first.matched THEN first ELSE MatchLabelAt(labels[2], s, i)

\* re.findall: the groups of the matches, left to right, none overlapping
RECURSIVE FindAll(_, _, _)
FindAll(labels, s, i) ==
    LET starts == {j \in i..Len(s) : MatchAt(labels, s, j).matched}
    IN  IF starts = {} THEN <<>>
        ELSE LET j == CHOOSE j \in starts : \A k \in starts : j <= k
                 m == MatchAt(labels, s, j)
             IN  <<m.group>> \o FindAll(labels, s, m.end + 1)

\* a get_stats that takes the first summary block
FirstMatch(matches) == matches[1]

\* main.py:119-120: matches[-1]
LastMatch(matches) == matches[Len(matches)]

\* main.py:119: re.sub(r"\D", "", text)
DigitsOnly(text) == SelectSeq(text, IsDigit)

StatsError == [raised |-> "ValueError", size_bytes |-> -1, file_count |-> -1]

\* main.py:105-124; int("") raises, and the except turns it into ValueError
get_stats(output) ==
    With(FindAll(SizeLabels, output, 1), LAMBDA size_matches :
    With(FindAll(FileLabels, output, 1), LAMBDA file_matches :
       IF size_matches = <<>> \/ file_matches = <<>> THEN StatsError
       ELSE With(DigitsOnly(LastMatch(size_matches)), LAMBDA size_text :
            With(DigitsOnly(LastMatch(file_matches)), LAMBDA file_text :
               IF size_text = <<>> \/ file_text = <<>> THEN StatsError
               ELSE [raised |-> "",
                     size_bytes |-> ParseInt(size_text),
                     file_count |-> ParseInt(file_text)]))))

(***************************************************************************)
(* SpecStats: get_stats on any listing of at most MaxListing lines.  The   *)
(* run is one whose only call is about to estimate.                        *)
(***************************************************************************)
\* a line of the listing: a label, what separates it from the number, the
\* number, and one more column
ListingLine(label, sep, number) == label \o sep \o number \o <<" ", "7", "\n">>

Colon == <<" ", ":", " ">>

TightColon == <<":">>

ListingLines ==
    {ListingLine(<<"B", "y", "t", "e", "s">>, Colon,
                 <<"1", "2", ",", "3", "4", "5", ",", "6", "7", "8">>),
     ListingLine(<<"O", "C", "T", "E", "T", "S">>, Colon,
                 <<"5", ".", "0", "0", "0">>),
     ListingLine(<<"b", "y", "t", "e", "s">>, TightColon, <<"0">>),
     ListingLine(<<"F", "i", "l", "e", "s">>, Colon, <<"3">>),
     ListingLine(<<"F", "i", "c", "h", "i", "e", "r", "s">>, Colon,
                 <<"1", ",", "0", "2", "4">>),
     ListingLine(<<"f", "i", "l", "e", "s">>, TightColon, <<"0">>),
     ListingLine(<<"B", "y", "t", "e", "s">>, Colon, <<",">>),
     ListingLine(<<"D", "i", "r", "s">>, Colon, <<"9">>),
     ListingLine(<<"B", "y", "t", "e", "s">>, <<" ">>, <<"1", "2">>)}

\* result.stdout: the lines one after the other
RECURSIVE Text(_)
Text(lines) == IF lines = <<>> THEN <<>> ELSE lines[1] \o Text(Tail(lines))

InitStats ==
    /\ args = [source_directories |-> <<1>>, mirror |-> FALSE, parallel |-> 1]
    /\ fs = <<"dir">>
    /\ mpc = "collect"
    /\ confirm = "?"
    /\ source_paths = <<1>>
    /\ executor = "open"
    /\ slots = <<NewSlot(1)>>
    /\ pairs = <<<<1, 0>>>>
    /\ futures = <<[state |-> "RUNNING", result |-> NoResult,
                    exception |-> "", source_path |-> 1, task_id |-> 0]>>
    /\ work_queue = <<>>
    /\ worker = <<1>>
    /\ frame = <<[NoFrame EXCEPT !.pc = "estimate"]>>
    /\ proc = <<"none">>
    /\ propagating = ""
    /\ results = <<>>
    /\ summary = NoSummary
    /\ exit_code = -1
    /\ overtaken = FALSE
    /\ fed = <<>>
    /\ parser = [current_file_size |-> 0, current_file_done |-> 0]
    /\ emitted = <<>>
    /\ \E n \in 0..MaxListing : listing \in [1..n -> ListingLines]
    /\ stats = NoStats
    /\ names = <<<<"C", "1">>>>
    /\ clock = 0
    /\ cmd = <<NoCmd>>

\* main.py:186: stats = get_stats(source_path), on what the listing printed
GetStats ==
    /\ stats = NoStats
    /\ stats' = get_stats(Text(listing))
    /\ UNCHANGED <<bvars, pvars, listing, names, clock, cmd>>

NextStats == GetStats

SpecStats == InitStats /\ [][NextStats]_vars

(***************************************************************************)
(* SpecPaths: the calls of a batch of two source directories up to the     *)
(* start of their copy processes, while the clock runs.  The run starts    *)
(* when main has submitted both calls.                                     *)
(***************************************************************************)
InitPaths ==
    /\ args = [source_directories |-> <<1, 2>>, mirror |-> FALSE,
               parallel |-> 2]
    /\ fs = <<"dir", "dir">>
    /\ mpc = "collect"
    /\ confirm = "?"
    /\ source_paths = <<1, 2>>
    /\ executor = "open"
    /\ slots = <<NewSlot(1), NewSlot(2)>>
    /\ pairs = <<<<1, 0>>, <<2, 1>>>>
    /\ futures = [k \in 1..2 |->
                     [state |-> "PENDING", result |-> NoResult,
                      exception |-> "", source_path |-> k, task_id |-> k - 1]]
    /\ work_queue = <<1, 2>>
    /\ worker = <<0, 0>>
    /\ frame = <<NoFrame, NoFrame>>
    /\ proc = <<"none", "none">>
    /\ propagating = ""
    /\ results = <<>>
    /\ summary = NoSummary
    /\ exit_code = -1
    /\ overtaken = FALSE
    /\ fed = <<>>
    /\ parser = [current_file_size |-> 0, current_file_done |-> 0]
    /\ emitted = <<>>
    /\ listing = <<>>
    /\ stats = NoStats
    /\ names \in {n \in [1..2 -> SourceDirs] : n[1] # n[2]}
    /\ clock = 0
    /\ cmd = <<NoCmd, NoCmd>>

\* time passes
Tick ==
    /\ clock < MaxClock
    /\ clock' = clock + 1
    /\ UNCHANGED <<bvars, pvars, svars, names, cmd>>

NextPaths ==
    \/ Tick
    \/ \E w \in DOMAIN worker :
          \/ TakeWork(w)
          \/ Estimate(w)
          \/ Launch(w)

SpecPaths == InitPaths /\ [][NextPaths]_vars

(***************************************************************************)
(* Properties of a run of main(): Spec.                                    *)
(***************************************************************************)
Calls == 1..Len(futures)

\* the calls of copy_folder that have started and neither returned nor raised
Running == {k \in Calls : frame[k].pc \in {"estimate", "launch", "read",
                                           "wait", "finalize"}}

IsFinished(k) == futures[k].state = "FINISHED"

Returned(k) == IsFinished(k) /\ futures[k].exception = ""

SlotOf(k) == Slot(futures[k].task_id)

\* get_stats raised ValueError in call k: the slot carries the error text
EstimationFailed(k) == SlotOf(k).description = "error"

\* main has left both with blocks
PoolClosed == executor = "shutdown"

\* main continues after the with blocks, at the summary: no call raised
BatchFinished == PoolClosed /\ propagating = ""

\* C1: in every reachable state at most args.parallel calls of copy_folder
\* have started and not yet returned or raised.
C1_AtMostParallelBodies == Cardinality(Running) <= args.parallel

\* every pool thread runs a call while one more call waits in the queue
C1_Witness ==
    /\ Cardinality(Running) = args.parallel
    /\ work_queue # <<>>

\* C2: results holds, position by position, the results of the calls in the
\* order they were submitted, and once main has left the pool without an
\* exception it holds one entry per submitted call.
C2_ResultsInSubmissionOrder ==
    /\ Len(results) <= Len(futures)
    /\ \A i \in 1..Len(results) : Returned(i) /\ results[i] = futures[i].result
    /\ BatchFinished =>
          /\ Len(futures) = Len(source_paths)
          /\ Len(results) = Len(futures)

\* a batch collected in full although the second call finished first, one
\* result being that of a failed estimation
C2_Witness ==
    /\ BatchFinished
    /\ overtaken
    /\ Len(results) = 2
    /\ results[1] # results[2]
    /\ \E k \in Calls : EstimationFailed(k)

\* C3: when the body of any call has started, the slot of every validated
\* source path exists.
C3_SlotsBeforeBodies ==
    \A k \in Calls :
       frame[k].pc # "none" =>
          /\ Len(slots) = Len(source_paths)
          /\ \A i \in 1..Len(source_paths) : slots[i].label = source_paths[i]

\* a body runs while another call still waits in the queue, its slot made
C3_Witness ==
    /\ Running # {}
    /\ work_queue # <<>>
    /\ Len(slots) = 2

\* C4: a call whose estimation failed has returned a result with
\* bytes_copied = 0, time_seconds = 0 and failed = true, without launching
\* a copy process, and every sibling call returns and has its result
\* collected.
C4_FailedEstimationResult ==
    /\ \A k \in Calls :
          EstimationFailed(k) =>
             /\ Returned(k)
             /\ futures[k].result.bytes_copied = 0
             /\ futures[k].result.time_seconds = 0
             /\ "failed" \in DOMAIN futures[k].result
             /\ futures[k].result.failed = TRUE
             /\ proc[k] = "none"
    /\ PoolClosed =>
          \A j \in Calls : Returned(j) /\ Len(results) >= j
                           /\ results[j] = futures[j].result

\* C5: a call whose launch of robocopy failed does not keep main from
\* collecting the results of the other calls and printing the summary.
C5_LaunchFailureIsLocal ==
    (mpc = "exited" /\ \E k \in Calls : futures[k].exception = "OSError: Popen")
       => /\ summary # NoSummary
          /\ \A j \in Calls :
                Returned(j) => \E i \in 1..Len(results) :
                                  results[i] = futures[j].result

\* C6: a call whose copy process was launched ends by returning a result,
\* its process waited for and its slot stopped, whatever reading the output
\* did.
C6_ReadErrorTolerated ==
    \A k \in Calls :
       (IsFinished(k) /\ proc[k] # "none") =>
          /\ futures[k].exception = ""
          /\ proc[k] = "exited"
          /\ SlotOf(k).stopped

\* C7: the program exits with 0 when the prompt is declined, before any slot
\* or call; with 1 when no source path is valid; and with 0 after every
\* batch.
C7_ExitCodes ==
    mpc = "exited" =>
       /\ confirm = "declined" =>
             exit_code = 0 /\ slots = <<>> /\ futures = <<>>
       /\ (confirm # "declined" /\ source_paths = <<>>) => exit_code = 1
       /\ (confirm # "declined" /\ source_paths # <<>>) => exit_code = 0

\* C8: after validation source_paths holds exactly the directories among
\* the given paths, in the order given; the calls are submitted for these
\* paths in that order; and with no valid path the program has exited with 1
\* without a slot, a pool or a call.
C8_ValidationFilters ==
    mpc \notin {"start", "validate"} /\ confirm # "declined" =>
       /\ \A i \in 1..Len(source_paths) : fs[source_paths[i]] = "dir"
       /\ \A d \in DOMAIN fs :
             fs[d] = "dir" => \E i \in 1..Len(source_paths) :
                                 source_paths[i] = d
       /\ \A i, j \in 1..Len(source_paths) :
             i < j => source_paths[i] < source_paths[j]
       /\ \A k \in Calls : futures[k].source_path = source_paths[k]
       /\ mpc \in {"collect", "shutdown", "summary"} =>
             Len(futures) = Len(source_paths)
       /\ source_paths = <<>> =>
             /\ mpc = "exited"
             /\ exit_code = 1
             /\ slots = <<>>
             /\ executor = "none"
             /\ futures = <<>>

\* the first path is not a directory and the second is scheduled alone
C8_Witness ==
    /\ fs = <<"file", "dir">>
    /\ mpc = "collect"
    /\ Len(futures) = 1
    /\ futures[1].source_path = 2

\* C9: a call whose copy process has exited has returned, with its slot
\* stopped and bytes_copied the estimated total, whatever the exit status
\* and whatever was advanced on the slot; and once the stream has ended
\* nothing keeps the call from getting there.
C9_DoneAfterExit ==
    /\ \A k \in Calls :
          (IsFinished(k) /\ proc[k] = "exited") =>
             /\ futures[k].exception = ""
             /\ futures[k].result.bytes_copied = SlotOf(k).total
             /\ SlotOf(k).stopped
             /\ SlotOf(k).description = "green"
    /\ \A w \in DOMAIN worker :
          (worker[w] # 0 /\ frame[worker[w]].pc \in {"wait", "finalize"}) =>
             ENABLED (Wait(w) \/ Finalize(w))

\* a call returned after a fatal exit status, half of the total advanced
C9_Witness ==
    \E k \in Calls :
       /\ IsFinished(k)
       /\ frame[k].returncode = 16
       /\ SlotOf(k).completed = 2
       /\ futures[k].result.bytes_copied = 4

(***************************************************************************)
(* Properties of the read loop: SpecParser.                                *)
(***************************************************************************)
\* the texts "p%" and "p.d%" for p in 0..100, each with its value in tenths
PercentTexts ==
    {<<PercentLine(p), 10 * p>> : p \in 0..100}
       \cup {<<DecimalLine(p, d), 10 * p + d>> : p \in 0..99, d \in 0..9}
       \cup {<<DecimalLine(100, 0), 1000>>}

\* C10: a percentage line of value p read in the state (S, D) gives
\* new_done = floor(S * p / 100); when new_done > D the delta new_done - D
\* is advanced and current_file_done becomes new_done, otherwise nothing is
\* advanced and the state stays.
C10_PercentageStep ==
    [][\A x \in PercentTexts :
          (fed' = Append(fed, x[1])) =>
             LET new_done == (parser.current_file_size * x[2]) \div 1000
             IN  IF new_done > parser.current_file_done
                 THEN /\ emitted' = Append(emitted,
                                           new_done - parser.current_file_done)
                      /\ parser' = [parser EXCEPT
                                       !.current_file_done = new_done]
                 ELSE /\ emitted' = Append(emitted, 0)
                      /\ parser' = parser]_vars

\* what has been advanced in all
RECURSIVE SumSeq(_)
SumSeq(q) == IF q = <<>> THEN 0 ELSE q[1] + SumSeq(Tail(q))

\* C12: after any lines current_file_done <= current_file_size; whatever is
\* advanced is positive; the sum advanced never decreases; a percentage
\* line moves current_file_done up by exactly what it advances and leaves
\* the size alone; and a percentage line repeated at once advances nothing.
C12_ParserInvariants ==
    /\ [](parser.current_file_done <= parser.current_file_size)
    /\ [](parser.current_file_done >= 0)
    /\ [](\A i \in 1..Len(emitted) : emitted[i] >= 0)
    /\ [][SumSeq(emitted') >= SumSeq(emitted)]_vars
    /\ [][\A x \in PercentTexts :
             (fed' = Append(fed, x[1])) =>
                /\ parser'.current_file_size = parser.current_file_size
                /\ parser'.current_file_done >= parser.current_file_done
                /\ emitted' = Append(emitted, parser'.current_file_done
                                                - parser.current_file_done)
                /\ (fed # <<>> /\ fed[Len(fed)] = x[1]) =>
                      /\ parser' = parser
                      /\ emitted' = Append(emitted, 0)]_vars

\* 100% twice and then a lower percentage: only the first advances
C12_Witness ==
    /\ fed = <<HeaderLine(1000), PercentLine(100), PercentLine(100),
               PercentLine(50)>>
    /\ emitted = <<0, 1000, 0, 0>>
    /\ parser = [current_file_size |-> 1000, current_file_done |-> 1000]

(***************************************************************************)
(* Properties of the read loop: SpecLines.                                 *)
(***************************************************************************)
\* the file lines of StreamLines, each with the size it states
HeaderTexts == {<<HeaderLine(500), 500>>, <<IndentedHeaderLine(200), 200>>}

\* C11: a file line read in any state sets current_file_size to its size
\* and current_file_done to 0 and advances nothing; so 500 a, 100%, 200 b,
\* 50% advances 500 and then 100, and no delta is ever negative.
C11_HeaderResets ==
    /\ [](\A i \in 1..Len(emitted) : emitted[i] >= 0)
    /\ [](fed = <<HeaderLine(500), PercentLine(100),
                  IndentedHeaderLine(200), PercentLine(50)>>
            => emitted = <<0, 500, 0, 100>>)
    /\ [][\A x \in HeaderTexts :
             (fed' = Append(fed, x[1])) =>
                /\ parser' = [current_file_size |-> x[2],
                              current_file_done |-> 0]
                /\ emitted' = Append(emitted, 0)]_vars

\* the second file starts from zero after the first was read to its end
C11_Witness ==
    /\ fed = <<HeaderLine(500), PercentLine(100), IndentedHeaderLine(200),
               PercentLine(50)>>
    /\ emitted = <<0, 500, 0, 100>>
    /\ parser = [current_file_size |-> 200, current_file_done |-> 100]

\* the lines of StreamLines that are neither a file line nor a percentage
IgnoredTexts == {BlankLine, WhitespaceLine, BannerLine, NumberLine}

\* C13: a line of whitespace only, or one that is neither a file line nor a
\* percentage, read in any state advances nothing and leaves
\* current_file_size and current_file_done as they were.
C13_OtherLinesIgnored ==
    [][\A g \in IgnoredTexts :
          (fed' = Append(fed, g)) =>
             /\ parser' = parser
             /\ emitted' = Append(emitted, 0)]_vars

\* half of a file is done, then an empty line and a bare number are read
C13_Witness ==
    /\ fed = <<HeaderLine(500), PercentLine(50), BlankLine, NumberLine>>
    /\ emitted = <<0, 250, 0, 0>>
    /\ parser = [current_file_size |-> 500, current_file_done |-> 250]

\* the percentages of StreamLines, with and without the blank
PercentageTexts == {PercentLine(50), PercentLine(100), SpacedPercentLine(50)}

\* C19: a line the percentage pattern accepts is never handled as a file
\* line: reading it leaves current_file_size alone and does not take
\* current_file_done back.
C19_PercentageIsNotHeader ==
    [][\A x \in PercentageTexts :
          (fed' = Append(fed, x) /\ PERCENTAGE_RE(Strip(x)).matched) =>
             /\ parser'.current_file_size = parser.current_file_size
             /\ parser'.current_file_done >= parser.current_file_done]_vars

(***************************************************************************)
(* Properties of the summary: SpecSummary.                                 *)
(***************************************************************************)
\* the double nearest to total_bytes / (1048576 * total_time)
NearestToQuotient(total_bytes, total_time) ==
    IF total_bytes = 0 THEN FZero
    ELSE LET q == FloatOfRatio(total_bytes, total_time)
         IN  [m |-> q.m, e |-> q.e - 20]

\* C14: the summary has total_bytes the sum of bytes_copied, total_time the
\* greatest time_seconds, not their sum, and 0 for no result, and
\* average_speed = total_bytes / 1_048_576 / total_time when total_time > 0
\* and 0 otherwise; the times 10, 7, 12 give 12.
C14_Summary ==
    /\ SummaryOf(<<>>) =
          [total_bytes |-> 0, total_time |-> 0, average_speed |-> FZero]
    /\ summary # NoSummary =>
          /\ summary.total_bytes =
                SumSeq([i \in 1..Len(results) |-> results[i].bytes_copied])
          /\ \E i \in 1..Len(results) :
                summary.total_time = results[i].time_seconds
          /\ \A i \in 1..Len(results) :
                summary.total_time >= results[i].time_seconds
          /\ summary.average_speed =
                IF summary.total_time > 0
                THEN NearestToQuotient(summary.total_bytes,
                                       summary.total_time)
                ELSE FZero
          /\ [i \in 1..Len(results) |-> results[i].time_seconds]
                = <<10, 7, 12>> => summary.total_time = 12

\* three calls that ran 10, 7 and 12 seconds and copied 32 MiB in all
C14_Witness ==
    /\ mpc = "exited"
    /\ [i \in 1..Len(results) |-> results[i].time_seconds] = <<10, 7, 12>>
    /\ summary.total_time = 12
    /\ summary.total_bytes = 33554432
    /\ FloatToInt(FloatMul(3, summary.average_speed)) = 8

(***************************************************************************)
(* Properties of get_stats: SpecStats.                                     *)
(***************************************************************************)
\* what each line of ListingLines says: which total, if any, and its value;
\* -1 stands for a number without a digit
SizeLines ==
    {<<ListingLine(<<"B", "y", "t", "e", "s">>, Colon,
                   <<"1", "2", ",", "3", "4", "5", ",", "6", "7", "8">>),
       12345678>>,
     <<ListingLine(<<"O", "C", "T", "E", "T", "S">>, Colon,
                   <<"5", ".", "0", "0", "0">>), 5000>>,
     <<ListingLine(<<"b", "y", "t", "e", "s">>, TightColon, <<"0">>), 0>>,
     <<ListingLine(<<"B", "y", "t", "e", "s">>, Colon, <<",">>), -1>>}

FileLines ==
    {<<ListingLine(<<"F", "i", "l", "e", "s">>, Colon, <<"3">>), 3>>,
     <<ListingLine(<<"F", "i", "c", "h", "i", "e", "r", "s">>, Colon,
                   <<"1", ",", "0", "2", "4">>), 1024>>,
     <<ListingLine(<<"f", "i", "l", "e", "s">>, TightColon, <<"0">>), 0>>}

\* the value of the last line of the listing that is in the table, -2 when
\* there is none
LastValue(table) ==
    LET at == {i \in 1..Len(listing) : \E x \in table : x[1] = listing[i]}
    IN  IF at = {} THEN -2
        ELSE LET i == CHOOSE i \in at : \A j \in at : j <= i
             IN  (CHOOSE x \in table : x[1] = listing[i])[2]

\* C15: get_stats returns only when the listing has a line for the bytes
\* and a line for the files, in either language, and then returns the
\* values of the last of each with the separators taken out; a listing
\* without one of the two, or whose last one has no digit, makes it raise
\* ValueError, and it never returns zeros that no line states.
C15_GetStats ==
    stats # NoStats =>
       LET size == LastValue(SizeLines)
           files == LastValue(FileLines)
       IN  /\ (size >= 0 /\ files >= 0) =>
                 stats = [raised |-> "", size_bytes |-> size,
                          file_count |-> files]
           /\ (size < 0 \/ files < 0) => stats = StatsError
           /\ stats.raised = "" =>
                 /\ \E i \in 1..Len(listing) : \E x \in SizeLines :
                       x[1] = listing[i] /\ x[2] = stats.size_bytes
                 /\ \E i \in 1..Len(listing) : \E x \in FileLines :
                       x[1] = listing[i] /\ x[2] = stats.file_count

\* two summary blocks: the totals of the second are returned
C15_Witness ==
    /\ Len(listing) = 3
    /\ LastValue(SizeLines) = 12345678
    /\ \E i \in 1..2 : \E x \in SizeLines :
          x[1] = listing[i] /\ x[2] = 5000
    /\ stats = [raised |-> "", size_bytes |-> 12345678, file_count |-> 1024]

(***************************************************************************)
(* Properties of the slots and of the steps of a call: Spec.               *)
(***************************************************************************)
\* the calls that take a step of copy_folder in this step of the run
Stepping == {k \in Calls : k <= Len(frame') /\ frame'[k] # frame[k]}

\* C16: the slots handed to the calls are pairwise distinct and exist; a
\* step changes a slot only as a step of the one call that was given this
\* slot, and changes no other slot with it; and the elapsed time a call
\* returns is the one of its own slot.
C16_OwnSlotOnly ==
    /\ [](/\ \A i, j \in 1..Len(pairs) :
                i # j => pairs[i][2] # pairs[j][2]
          /\ \A k \in Calls :
                /\ futures[k].task_id = pairs[k][2]
                /\ futures[k].task_id + 1 \in 1..Len(slots)
                /\ (Returned(k) /\ proc[k] = "exited") =>
                      futures[k].result.time_seconds = SlotOf(k).elapsed)
    /\ [][\A i \in 1..Len(slots) :
             slots'[i] # slots[i] =>
                /\ \E k \in Calls : /\ futures[k].task_id = i - 1
                                    /\ Stepping = {k}
                /\ \A j \in 1..Len(slots) : j # i => slots'[j] = slots[j]]_vars

\* two calls run side by side, each with the total on its own slot, and
\* the second has advanced its slot
C16_Witness ==
    /\ Cardinality(Running) = 2
    /\ Len(slots) = 2
    /\ slots[1].total = 4
    /\ slots[2].total = 4
    /\ slots[1].completed = 0
    /\ slots[2].completed = 2

(***************************************************************************)
(* Properties of the paths handed to robocopy: SpecPaths.                  *)
(***************************************************************************)
\* the calls whose copy process has been started
Launched == {k \in Calls : proc[k] # "none"}

\* C17: no two copy processes of a batch are started with the same log file
\* path, also when the calls have the same leaf name and start within the
\* same second.
C17_LogFilePathUnique ==
    \A k, j \in Launched :
       k # j => cmd[k].log_file_path # cmd[j].log_file_path

\* C20: the copy processes of two different source paths, also of two with
\* the same last component, are started with different destination paths.
C20_DestinationPathUnique ==
    \A k, j \in Launched :
       names[futures[k].source_path] # names[futures[j].source_path] =>
          cmd[k].destination_path # cmd[j].destination_path

(***************************************************************************)
(* Properties of the order of the steps of a call: Spec.                   *)
(***************************************************************************)
\* how far a call of copy_folder has come
PcRank(pc) ==
    CASE pc = "none" -> 0
      [] pc = "estimate" -> 1
      [] pc = "launch" -> 2
      [] pc = "read" -> 3
      [] pc = "wait" -> 4
      [] pc = "finalize" -> 5
      [] pc \in {"returned", "raised"} -> 6

\* C18: a call only moves forward: get_stats is called once, first of all;
\* the copy process is started only with the total set and the clock reset
\* once on the slot; the slot is advanced only while the call reads the
\* output of its running process, before it waits for the exit; the slot is
\* stopped only in the step after the wait that followed the end of the
\* stream; and a stopped slot is never changed again.
C18_ForwardOnly ==
    /\ [](\A k \in Calls :
             /\ frame[k].estimates =
                   (IF frame[k].pc = "none" \/ frame[k].pc = "estimate"
                    THEN 0 ELSE 1)
             /\ proc[k] # "none" =>
                   /\ SlotOf(k).total # -1
                   /\ SlotOf(k).resets = 1
             /\ SlotOf(k).stopped =>
                   /\ proc[k] = "exited"
                   /\ frame[k].pc = "returned")
    /\ [][\A k \in Calls :
             LET old == SlotOf(k)
                 new == slots'[futures[k].task_id + 1]
             IN  /\ frame'[k].pc # frame[k].pc =>
                       /\ PcRank(frame'[k].pc) > PcRank(frame[k].pc)
                       /\ frame'[k].pc = "wait" => frame[k].pc = "read"
                       /\ frame'[k].pc = "finalize" => frame[k].pc = "wait"
                 /\ new # old =>
                       /\ ~old.stopped
                       /\ (new.completed > old.completed
                           /\ new.description = old.description) =>
                             /\ frame[k].pc = "read"
                             /\ proc[k] = "running"
                             /\ proc'[k] = "running"
                       /\ new.stopped =>
                             /\ frame[k].pc = "finalize"
                             /\ proc[k] = "exited"]_vars

\* a call went through every step: one estimation, bytes advanced while the
\* process ran, the exit waited for, the slot stopped
C18_Witness ==
    \E k \in Calls :
       /\ frame[k].pc = "returned"
       /\ frame[k].estimates = 1
       /\ proc[k] = "exited"
       /\ SlotOf(k).resets = 1
       /\ SlotOf(k).completed = 2
       /\ SlotOf(k).stopped

====
